---- MODULE Spec2Model ----
(***************************************************************************)
(* Model of models.py: a Facility backed by three SQLite tables (rooms,    *)
(* people, people_rooms) and the operations of class Facility.             *)
(*                                                                         *)
(* Text is modelled as a sequence of tokens: a token is a word, the        *)
(* keyword FELLOW or STAFF, or the blank " ".  str.split, str.strip and    *)
(* str.lower are modelled on token sequences.  Every db.query call of the  *)
(* source commits on its own (there is no transaction in the source), so   *)
(* a handler that raises keeps the rows it had already inserted.           *)
(***************************************************************************)
EXTENDS Integers, Sequences, FiniteSets, TLC

VARIABLES rooms, people, people_rooms, lastOp

vars == <<rooms, people, people_rooms, lastOp>>

----------------------------------------------------------------------------
(* Bounds of the model *)

\* longest list of names passed to create_rooms / add_fellows / add_staff
MaxNames == 2

\* largest number of lines of a file given to load_people
MaxLines == 2

\* largest number of lines of a file when only load_people is called
MaxBatch == 3

----------------------------------------------------------------------------
(* Input alphabets *)

Blank == " "

RoomNames == {"Valhalla", "Python"}

RoomTypeInputs == {"living_space", "office", "kitchen"}

ANN == <<"ANN">>
BOB == <<"BOB">>

PersonNames == {ANN, BOB}

\* the accomodation argument of add_fellows
AccomodationInputs == {<<"Y">>, <<"y">>, <<>>}

\* the lines a people file is made of: fellows with a lower-case and with no
\* accomodation text, staff with and without trailing text, and a line that
\* has neither keyword
Lines ==
  { <<"ANN", Blank, "FELLOW", Blank, "y">>,
    <<"BOB", Blank, "FELLOW">>,
    <<"ANN", Blank, "STAFF">>,
    <<"BOB", Blank, "STAFF", Blank, "Y">>,
    <<"ANN", Blank, "Y">> }

\* all sequences over S of length 0..n
RECURSIVE SeqsUpTo(_, _)
SeqsUpTo(S, n) ==
  IF n = 0 THEN {<<>>}
  ELSE LET shorter == SeqsUpTo(S, n - 1)
       IN  shorter \cup {Append(s, x) : s \in shorter, x \in S}

----------------------------------------------------------------------------
(* Text helpers *)

\* str.lower on one token
LowerTok(t) == IF t = "Y" THEN "y" ELSE IF t = "N" THEN "n" ELSE t

\* str.lower
Lower(s) == [i \in 1..Len(s) |-> LowerTok(s[i])]

\* str.strip: drop leading and trailing blanks
RECURSIVE Strip(_)
Strip(s) ==
  IF s = <<>> THEN s
  ELSE IF Head(s) = Blank THEN Strip(Tail(s))
  ELSE IF s[Len(s)] = Blank THEN Strip(SubSeq(s, 1, Len(s) - 1))
  ELSE s

\* 'KEY' in line
Contains(line, key) == \E i \in 1..Len(line) : line[i] = key

\* line.split(KEY): the chunks between the occurrences of KEY
RECURSIVE Split(_, _)
Split(line, key) ==
  IF ~Contains(line, key) THEN <<line>>
  ELSE LET i == CHOOSE k \in 1..Len(line) :
                  line[k] = key /\ \A j \in 1..(k - 1) : line[j] # key
       IN  <<SubSeq(line, 1, i - 1)>> \o Split(SubSeq(line, i + 1, Len(line)), key)

\* [chunk.strip() for chunk in line.split(KEY)]
StrippedChunks(line, key) ==
  LET chunks == Split(line, key)
  IN  [i \in 1..Len(chunks) |-> Strip(chunks[i])]

----------------------------------------------------------------------------
(* Storage layer: INSERT under the UNIQUE constraint on name *)

NoError == "None"
IntegrityError == "IntegrityError"
ValueError == "ValueError"

\* name UNIQUE: is the name already the name of a row of the table
NameTaken(table, name) == \E i \in 1..Len(table) : table[i].name = name

\* name UNIQUE dropped from the schema
InsertRow_NoUnique(table, row) == [ok |-> TRUE, table |-> Append(table, row)]

\* INSERT INTO <table>: appended (id = position) unless the name is taken
InsertRow(table, row) ==
  IF NameTaken(table, row.name)
  THEN [ok |-> FALSE, table |-> table]
  ELSE [ok |-> TRUE, table |-> Append(table, row)]

\* capacity of a LivingSpace
LivingSpace_capacity == 4

\* an office created with the capacity of a living space
Office_capacity_AsLivingSpace == LivingSpace_capacity

\* capacity of an Office
Office_capacity == 6

\* LivingSpace.save
LivingSpace_save(table, name) ==
  InsertRow(table, [name |-> name, type |-> "L", capacity |-> LivingSpace_capacity])

\* Office.save
Office_save(table, name) ==
  InsertRow(table, [name |-> name, type |-> "O", capacity |-> Office_capacity])

\* Fellow.save
Fellow_save(table, name, wants_accomodation) ==
  InsertRow(table, [name |-> name, type |-> "F", accomodation |-> wants_accomodation])

\* Staff.save with the flag of a fellow who wants accomodation
Staff_save_FlagY(table, name) ==
  InsertRow(table, [name |-> name, type |-> "S", accomodation |-> <<"Y">>])

\* Staff.save: the flag is always 'N'
Staff_save(table, name) ==
  InsertRow(table, [name |-> name, type |-> "S", accomodation |-> <<"N">>])

----------------------------------------------------------------------------
(* Queries *)

\* select count(id) from people_rooms where room_id = id
room_count(assignments, id) ==
  Cardinality({i \in 1..Len(assignments) : assignments[i].room_id = id})

\* Facility.available_rooms with the subtraction the wrong way round
available_rooms_Swapped(roomTable, assignments) ==
  [i \in 1..Len(roomTable) |->
     [name            |-> roomTable[i].name,
      type            |-> roomTable[i].type,
      capacity        |-> roomTable[i].capacity,
      available_space |-> room_count(assignments, i) - roomTable[i].capacity]]

\* Facility.available_rooms that fetches the first row of rooms only
available_rooms_FirstRowOnly(roomTable, assignments) ==
  [i \in 1..(IF Len(roomTable) > 0 THEN 1 ELSE 0) |->
     [name            |-> roomTable[i].name,
      type            |-> roomTable[i].type,
      capacity        |-> roomTable[i].capacity,
      available_space |-> roomTable[i].capacity - room_count(assignments, i)]]

\* Facility.available_rooms: one entry per row of rooms, in id order
available_rooms(roomTable, assignments) ==
  [i \in 1..Len(roomTable) |->
     [name            |-> roomTable[i].name,
      type            |-> roomTable[i].type,
      capacity        |-> roomTable[i].capacity,
      available_space |-> roomTable[i].capacity - room_count(assignments, i)]]

\* what a call leaves behind: its name, the exception it raised (or None),
\* the lists it printed or returned, and the number of the line of the
\* people file at which it raised (0 when no line made it raise)
Outcome(op, err, fellows, staff, report) ==
  [op |-> op, err |-> err, fellows |-> fellows, staff |-> staff,
   rooms |-> report, line |-> 0]

----------------------------------------------------------------------------
(* Facility.create_rooms *)

\* the room type check that accepts every type
ValidRoomType_Any(room_type) == TRUE

\* room_type in ('living_space', 'office')
ValidRoomType(room_type) == room_type \in {"living_space", "office"}

\* the for loop of create_rooms from the i-th name on; the first exception
\* ends the loop and the rows inserted before it stay
RECURSIVE create_rooms_loop(_, _, _, _)
create_rooms_loop(table, room_type, names, i) ==
  IF i > Len(names) THEN [table |-> table, err |-> NoError]
  ELSE IF room_type \notin {"living_space", "office"}
       THEN [table |-> table, err |-> "UnboundLocalError"]
  ELSE LET saved == IF room_type = "living_space"
                    THEN LivingSpace_save(table, names[i])
                    ELSE Office_save(table, names[i])
       IN  IF saved.ok
           THEN create_rooms_loop(saved.table, room_type, names, i + 1)
           ELSE [table |-> table, err |-> IntegrityError]

\* the result of create_rooms(room_type, names) on a rooms table
create_rooms_result(table, room_type, names) ==
  IF ~ValidRoomType(room_type)
  THEN [table |-> table, err |-> ValueError]
  ELSE create_rooms_loop(table, room_type, names, 1)

create_rooms(room_type, names) ==
  \E r \in {create_rooms_result(rooms, room_type, names)} :
      /\ rooms' = r.table
      /\ lastOp' = Outcome("create_rooms", r.err, <<>>, <<>>, <<>>)
      /\ UNCHANGED <<people, people_rooms>>

----------------------------------------------------------------------------
(* Facility.add_fellows, Facility.add_staff *)

\* 'Y' if accomodation.lower() == 'y' else 'N'
wants_accomodation(accomodation) ==
  IF Lower(accomodation) = <<"y">> THEN <<"Y">> ELSE <<"N">>

\* the for loop of add_fellows from the i-th name on
RECURSIVE add_fellows_loop(_, _, _, _)
add_fellows_loop(table, fellows, wants, i) ==
  IF i > Len(fellows) THEN [table |-> table, err |-> NoError]
  ELSE LET saved == Fellow_save(table, fellows[i], wants)
       IN  IF saved.ok
           THEN add_fellows_loop(saved.table, fellows, wants, i + 1)
           ELSE [table |-> table, err |-> IntegrityError]

add_fellows(fellows, accomodation) ==
  \E r \in {add_fellows_loop(people, fellows, wants_accomodation(accomodation), 1)} :
      /\ people' = r.table
      /\ lastOp' = Outcome("add_fellows", r.err, <<>>, <<>>, <<>>)
      /\ UNCHANGED <<rooms, people_rooms>>

\* the for loop of add_staff from the i-th name on
RECURSIVE add_staff_loop(_, _, _)
add_staff_loop(table, staff, i) ==
  IF i > Len(staff) THEN [table |-> table, err |-> NoError]
  ELSE LET saved == Staff_save(table, staff[i])
       IN  IF saved.ok
           THEN add_staff_loop(saved.table, staff, i + 1)
           ELSE [table |-> table, err |-> IntegrityError]

add_staff(staff) ==
  \E r \in {add_staff_loop(people, staff, 1)} :
      /\ people' = r.table
      /\ lastOp' = Outcome("add_staff", r.err, <<>>, <<>>, <<>>)
      /\ UNCHANGED <<rooms, people_rooms>>

----------------------------------------------------------------------------
(* Facility.reallocate_person: the body is `pass` *)

\* a reallocation that adds the new assignment and keeps the old one
reallocate_person_AssignOnly(person, new_room) ==
  /\ \E p \in 1..Len(people), r \in 1..Len(rooms) :
       /\ people[p].name = person
       /\ rooms[r].name = new_room
       /\ people_rooms' = Append(people_rooms, [person_id |-> p, room_id |-> r])
  /\ lastOp' = Outcome("reallocate_person", NoError, <<>>, <<>>, <<>>)
  /\ UNCHANGED <<rooms, people>>

reallocate_person(person, new_room) ==
  /\ lastOp' = Outcome("reallocate_person", NoError, <<>>, <<>>, <<>>)
  /\ UNCHANGED <<rooms, people, people_rooms>>

----------------------------------------------------------------------------
(* Facility.load_people *)

\* list.remove(x): drop the first element equal to x
RemoveFirst(list, x) ==
  LET k == CHOOSE j \in 1..Len(list) :
             list[j] = x /\ \A h \in 1..(j - 1) : list[h] # x
  IN  SubSeq(list, 1, k - 1) \o SubSeq(list, k + 1, Len(list))

\* the loop over the lines of the file from the i-th line on: a FELLOW line
\* gives a (name, accomodation) pair, a STAFF line a name, any other line
\* raises ValueError
RECURSIVE read_people_file(_, _, _, _)
read_people_file(lines, i, fellows, staff) ==
  IF i > Len(lines)
  THEN [fellows |-> fellows, staff |-> staff, err |-> NoError, line |-> 0]
  ELSE IF Contains(lines[i], "FELLOW")
       THEN LET fellow_data == StrippedChunks(lines[i], "FELLOW")
            IN  read_people_file(lines, i + 1,
                                 Append(fellows, <<fellow_data[1], fellow_data[2]>>),
                                 staff)
  ELSE IF Contains(lines[i], "STAFF")
       THEN LET staff_data == StrippedChunks(lines[i], "STAFF")
            IN  read_people_file(lines, i + 1, fellows, Append(staff, staff_data[1]))
  ELSE [fellows |-> fellows, staff |-> staff, err |-> ValueError, line |-> i]

\* `for (name, accomodation) in fellows`: the iterator is at index i of the
\* list as it is now; an IntegrityError removes the first equal element of
\* the list that is being iterated
RECURSIVE persist_fellows(_, _, _)
persist_fellows(table, fellows, i) ==
  IF i > Len(fellows) THEN [table |-> table, list |-> fellows]
  ELSE LET saved == Fellow_save(table, fellows[i][1], fellows[i][2])
       IN  IF saved.ok
           THEN persist_fellows(saved.table, fellows, i + 1)
           ELSE persist_fellows(table, RemoveFirst(fellows, fellows[i]), i + 1)

\* `for member in staff`, as persist_fellows
RECURSIVE persist_staff(_, _, _)
persist_staff(table, staff, i) ==
  IF i > Len(staff) THEN [table |-> table, list |-> staff]
  ELSE LET saved == Staff_save(table, staff[i])
       IN  IF saved.ok
           THEN persist_staff(saved.table, staff, i + 1)
           ELSE persist_staff(table, RemoveFirst(staff, staff[i]), i + 1)

\* load_people that saves the people read before a malformed line
load_people_result_SavesPrefix(table, lines) ==
  LET read == read_people_file(lines, 1, <<>>, <<>>)
      f    == persist_fellows(table, read.fellows, 1)
      st   == persist_staff(f.table, read.staff, 1)
  IN  IF read.err # NoError
      THEN [table |-> st.table, err |-> read.err, line |-> read.line,
            fellows |-> <<>>, staff |-> <<>>]
      ELSE [table |-> st.table, err |-> NoError, line |-> 0,
            fellows |-> f.list, staff |-> st.list]

\* the result of load_people on a people table: the fellows are saved before
\* the staff, and nothing is saved when a line of the file is malformed
load_people_result(table, lines) ==
  LET read == read_people_file(lines, 1, <<>>, <<>>)
  IN  IF read.err # NoError
      THEN [table |-> table, err |-> read.err, line |-> read.line,
            fellows |-> <<>>, staff |-> <<>>]
      ELSE LET f  == persist_fellows(table, read.fellows, 1)
               st == persist_staff(f.table, read.staff, 1)
           IN  [table |-> st.table, err |-> NoError, line |-> 0,
                fellows |-> f.list, staff |-> st.list]

load_people(lines) ==
  \E r \in {load_people_result(people, lines)} :
      /\ people' = r.table
      /\ lastOp' = [Outcome("load_people", r.err, r.fellows, r.staff,
                            IF r.err = NoError
                            THEN available_rooms(rooms, people_rooms) ELSE <<>>)
                      EXCEPT !.line = r.line]
      /\ UNCHANGED <<rooms, people_rooms>>

----------------------------------------------------------------------------
(* Facility.available_rooms called by a client *)

call_available_rooms ==
  /\ lastOp' = Outcome("available_rooms", NoError, <<>>, <<>>,
                       available_rooms(rooms, people_rooms))
  /\ UNCHANGED <<rooms, people, people_rooms>>

----------------------------------------------------------------------------
(* The facility *)

\* Facility.__init__ on a fresh database file: intialize_db creates the
\* three tables, empty
Init ==
  /\ rooms = <<>>
  /\ people = <<>>
  /\ people_rooms = <<>>
  /\ lastOp = Outcome("__init__", NoError, <<>>, <<>>, <<>>)

Next ==
  \/ \E room_type \in RoomTypeInputs, names \in SeqsUpTo(RoomNames, MaxNames) :
       create_rooms(room_type, names)
  \/ \E fellows \in SeqsUpTo(PersonNames, MaxNames), a \in AccomodationInputs :
       add_fellows(fellows, a)
  \/ \E staff \in SeqsUpTo(PersonNames, MaxNames) : add_staff(staff)
  \/ \E person \in PersonNames, new_room \in RoomNames :
       reallocate_person(person, new_room)
  \/ \E lines \in SeqsUpTo(Lines, MaxLines) : load_people(lines)
  \/ call_available_rooms

Spec == Init /\ [][Next]_vars

\* a client that only loads people files, of up to MaxBatch lines
NextLoad == \E lines \in SeqsUpTo(Lines, MaxBatch) : load_people(lines)

SpecLoad == Init /\ [][NextLoad]_vars

----------------------------------------------------------------------------
(* Properties *)

\* the assignments of person p to rooms of type t
AssignmentsOfType(p, t) ==
  {i \in 1..Len(people_rooms) :
     /\ people_rooms[i].person_id = p
     /\ rooms[people_rooms[i].room_id].type = t}

\* C1: for every room the number of people_rooms rows that refer to it is at
\* most the capacity of the room, and no available_space that
\* available_rooms computes or has reported is negative.
C1_OccupancyWithinCapacity ==
  /\ \A r \in 1..Len(rooms) : room_count(people_rooms, r) <= rooms[r].capacity
  /\ LET report == available_rooms(rooms, people_rooms)
     IN  \A i \in 1..Len(report) : report[i].available_space >= 0
  /\ \A i \in 1..Len(lastOp.rooms) : lastOp.rooms[i].available_space >= 0

\* C1 witness: an office and a living space exist, people are registered,
\* and available_rooms has just reported both rooms
C1_Witness ==
  /\ lastOp.op = "available_rooms"
  /\ Len(lastOp.rooms) = 2
  /\ \E i, j \in 1..Len(rooms) : rooms[i].type = "O" /\ rooms[j].type = "L"
  /\ Len(people) = 2

\* C2: every person holds at most one assignment to an office and at most
\* one assignment to a living space.
C2_OneRoomPerType ==
  \A p \in 1..Len(people) : \A t \in {"O", "L"} :
    Cardinality(AssignmentsOfType(p, t)) <= 1

\* C2 witness: reallocate_person has just been called while a person and two
\* rooms of the same type exist
C2_Witness ==
  /\ lastOp.op = "reallocate_person"
  /\ Len(people) >= 1
  /\ \E i, j \in 1..Len(rooms) : i # j /\ rooms[i].type = rooms[j].type

\* C3: no two rows of people have the same name, whatever their roles.
C3_PersonNamesUnique ==
  \A i, j \in 1..Len(people) : people[i].name = people[j].name => i = j

\* C3 witness: a fellow is registered and add_staff has just been refused
\* by the storage layer
C3_Witness ==
  /\ lastOp.op = "add_staff"
  /\ lastOp.err = IntegrityError
  /\ \E i \in 1..Len(people) : people[i].type = "F"

\* C4: add_fellows or add_staff with one name that is already registered
\* fails with DuplicateName and leaves the people table as it was.
C4_DuplicateAddRejected ==
  [][\A n \in PersonNames :
       (/\ NameTaken(people, n)
        /\ \/ add_staff(<<n>>)
           \/ \E a \in AccomodationInputs : add_fellows(<<n>>, a))
       => (lastOp'.err = "DuplicateName" /\ people' = people)]_vars

\* C5: create_rooms with a name that is already a room's name, and
\* add_fellows or add_staff with a name that is already a person's name,
\* fail with DuplicateName, and the existing rows keep their values.
C5_DuplicateNameTranslated ==
  [][/\ \A n \in RoomNames :
          (/\ NameTaken(rooms, n)
           /\ \E t \in {"living_space", "office"} : create_rooms(t, <<n>>))
          => (lastOp'.err = "DuplicateName" /\ rooms' = rooms)
     /\ \A n \in PersonNames :
          (/\ NameTaken(people, n)
           /\ \/ add_staff(<<n>>)
              \/ \E a \in AccomodationInputs : add_fellows(<<n>>, a))
          => (lastOp'.err = "DuplicateName" /\ people' = people)]_vars

\* C6: create_rooms with a room type other than living_space and office
\* raises ValueError and changes none of the three tables, for every list
\* of names.
C6_InvalidTypeWritesNothing ==
  [][lastOp'.op = "create_rooms" =>
       \A t \in RoomTypeInputs \ {"living_space", "office"} :
         \A names \in SeqsUpTo(RoomNames, MaxNames) :
           create_rooms(t, names)
           => /\ lastOp'.err = ValueError
              /\ UNCHANGED <<rooms, people, people_rooms>>]_vars

\* C6 witness: create_rooms has just raised ValueError on a facility that
\* has rooms and people
C6_Witness ==
  /\ lastOp.op = "create_rooms"
  /\ lastOp.err = ValueError
  /\ Len(rooms) >= 1
  /\ Len(people) >= 1

\* C7: a create_rooms, add_fellows or add_staff call that fails leaves the
\* rooms and people tables as they were before the call.
C7_FailedCallPersistsNothing ==
  [][(/\ lastOp'.op \in {"create_rooms", "add_fellows", "add_staff"}
      /\ lastOp'.err # NoError)
     => (rooms' = rooms /\ people' = people)]_vars

\* C8: every office has capacity 6 and every living space capacity 4, and
\* no step changes a row of rooms that already exists.
C8_CapacityFixedByType ==
  [][/\ \A i \in 1..Len(rooms') :
          /\ rooms'[i].type \in {"O", "L"}
          /\ rooms'[i].type = "O" => rooms'[i].capacity = 6
          /\ rooms'[i].type = "L" => rooms'[i].capacity = 4
     /\ \A i \in 1..Len(rooms) :
          i <= Len(rooms') /\ rooms'[i] = rooms[i]]_vars

\* C8 witness: an office and a living space exist, people were added, and a
\* further create_rooms call has met an existing name
C8_Witness ==
  /\ lastOp.op = "create_rooms"
  /\ lastOp.err = IntegrityError
  /\ \E i, j \in 1..Len(rooms) : rooms[i].type = "O" /\ rooms[j].type = "L"
  /\ Len(people) >= 1

\* C9: every person persisted as staff has the accomodation flag 'N'.
C9_StaffFlagIsN ==
  \A i \in 1..Len(people) :
    people[i].type = "S" => people[i].accomodation = <<"N">>

\* C9 witness: load_people has just persisted BOB from the line
\* `BOB STAFF Y`, and ANN is staff too
C9_Witness ==
  /\ lastOp.op = "load_people"
  /\ lastOp.staff = <<BOB>>
  /\ \E i \in 1..Len(people) : people[i].name = BOB /\ people[i].type = "S"
  /\ \E i \in 1..Len(people) : people[i].name = ANN /\ people[i].type = "S"

\* the number of entries of the lists load_people reports that carry name n
ReportedAsAdded(n) ==
  Cardinality({i \in 1..Len(lastOp'.fellows) : lastOp'.fellows[i][1] = n})
  + Cardinality({i \in 1..Len(lastOp'.staff) : lastOp'.staff[i] = n})

\* the names on the lines of a well-formed file
EntryNames(lines) ==
  LET read == read_people_file(lines, 1, <<>>, <<>>)
  IN  {read.fellows[i][1] : i \in 1..Len(read.fellows)}
      \cup {read.staff[i] : i \in 1..Len(read.staff)}

\* C10: a load of well-formed lines raises nothing; a name of the file that
\* was not registered is persisted and reported as added once, and a name
\* that was registered is not reported as added.
C10_EveryEntryHandledOnce ==
  [][\A lines \in SeqsUpTo(Lines, MaxLines) :
       (/\ read_people_file(lines, 1, <<>>, <<>>).err = NoError
        /\ load_people(lines))
       => /\ lastOp'.err = NoError
          /\ \A n \in EntryNames(lines) :
               IF NameTaken(people, n)
               THEN ReportedAsAdded(n) = 0
               ELSE NameTaken(people', n) /\ ReportedAsAdded(n) = 1]_vars

\* the lines of a file before its first malformed line
WellFormedPrefix(lines) ==
  SubSeq(lines, 1, read_people_file(lines, 1, <<>>, <<>>).line - 1)

\* C11 as claimed: a load that meets a malformed line raises ValueError and
\* the people of the well-formed lines before that line are registered.
C11_PrefixCommitted ==
  [][lastOp'.op = "load_people" =>
       \A lines \in SeqsUpTo(Lines, MaxLines) :
         (/\ read_people_file(lines, 1, <<>>, <<>>).err # NoError
          /\ load_people(lines))
         => /\ lastOp'.err = ValueError
            /\ \A n \in EntryNames(WellFormedPrefix(lines)) :
                 NameTaken(people', n)]_vars

\* C11 amended: a load that meets a malformed line raises ValueError before
\* any write: no line of the file is persisted, neither before nor after
\* the malformed one, and the three tables are unchanged.
C11_MalformedFileWritesNothing ==
  [][(lastOp'.op = "load_people" /\ lastOp'.line > 0)
     => /\ lastOp'.err = ValueError
        /\ UNCHANGED <<rooms, people, people_rooms>>]_vars

\* C11 witness: load_people has just raised ValueError at the second line of
\* a file, after a well-formed first line, on a facility without people
C11_Witness ==
  /\ lastOp.op = "load_people"
  /\ lastOp.err = ValueError
  /\ lastOp.line = 2
  /\ people = <<>>

\* C12: a second load_people of the same well-formed lines raises nothing
\* and leaves the people table as the first load left it.
C12_ReloadChangesNothing ==
  [][lastOp'.op = "load_people" =>
       \A lines \in SeqsUpTo(Lines, MaxBatch) :
         (/\ read_people_file(lines, 1, <<>>, <<>>).err = NoError
          /\ load_people(lines))
         => LET again == load_people_result(people', lines)
            IN  again.err = NoError /\ again.table = people']_vars

\* the rows of people that a step has added
NewPeople == {p \in 1..Len(people') : p > Len(people)}

\* person p holds, after the step, an assignment to a room of type t
AssignedToType(p, t) ==
  \E i \in 1..Len(people_rooms') :
    /\ people_rooms'[i].person_id = p
    /\ rooms'[people_rooms'[i].room_id].type = t

\* a room of type t has available capacity before the step
HasVacancy(t) ==
  \E r \in 1..Len(rooms) :
    rooms[r].type = t /\ room_count(people_rooms, r) < rooms[r].capacity

\* C13: a staff member added while an office has available capacity is
\* assigned to an office, and a fellow wanting accomodation added while a
\* living space has available capacity is assigned to a living space.
C13_AutoAllocationOnAdd ==
  [][lastOp'.op \in {"add_fellows", "add_staff", "load_people"} =>
       \A p \in NewPeople :
         /\ (people'[p].type = "S" /\ HasVacancy("O"))
            => AssignedToType(p, "O")
         /\ (people'[p].type = "F" /\ Lower(people'[p].accomodation) = <<"y">>
             /\ HasVacancy("L"))
            => AssignedToType(p, "L")]_vars

\* person and room named by a reallocate_person call
PersonId(name) == CHOOSE p \in 1..Len(people) : people[p].name = name
RoomId(name) == CHOOSE r \in 1..Len(rooms) : rooms[r].name = name

\* C14: after reallocate_person of an existing person to an existing room
\* with spare capacity, the person is an occupant of that room and of no
\* other room of its type.
C14_ReallocatedPersonInDestination ==
  [][\A person \in PersonNames, new_room \in RoomNames :
       (/\ NameTaken(people, person)
        /\ NameTaken(rooms, new_room)
        /\ room_count(people_rooms, RoomId(new_room)) < rooms[RoomId(new_room)].capacity
        /\ reallocate_person(person, new_room)
        /\ lastOp'.err = NoError)
       => /\ \E i \in 1..Len(people_rooms') :
               /\ people_rooms'[i].person_id = PersonId(person)
               /\ people_rooms'[i].room_id = RoomId(new_room)
          /\ \A i \in 1..Len(people_rooms') :
               (/\ people_rooms'[i].person_id = PersonId(person)
                /\ rooms[people_rooms'[i].room_id].type = rooms[RoomId(new_room)].type)
               => people_rooms'[i].room_id = RoomId(new_room)]_vars

\* C15: reallocate_person of a staff member to a living space fails with
\* TypeMismatch and leaves people_rooms unchanged, and no staff member ever
\* holds an assignment to a living space.
C15_StaffNeverInLivingSpace ==
  [][/\ \A person \in PersonNames, new_room \in RoomNames :
          (/\ NameTaken(people, person)
           /\ NameTaken(rooms, new_room)
           /\ people[PersonId(person)].type = "S"
           /\ rooms[RoomId(new_room)].type = "L"
           /\ reallocate_person(person, new_room))
          => (lastOp'.err = "TypeMismatch" /\ people_rooms' = people_rooms)
     /\ \A i \in 1..Len(people_rooms') :
          people'[people_rooms'[i].person_id].type = "S"
          => rooms'[people_rooms'[i].room_id].type # "L"]_vars

LineRole(line) == IF Contains(line, "FELLOW") THEN "F" ELSE "S"
LineName(line) ==
  StrippedChunks(line, IF Contains(line, "FELLOW") THEN "FELLOW" ELSE "STAFF")[1]

\* C17: when an unregistered name stands on two lines of one file with
\* different roles, the person is persisted with the role of the first of
\* the lines.
C17_EarlierLineWins ==
  [][lastOp'.op = "load_people" =>
       \A lines \in SeqsUpTo(Lines, MaxLines) :
         (/\ read_people_file(lines, 1, <<>>, <<>>).err = NoError
          /\ load_people(lines))
         => \A i \in 1..Len(lines) :
              (/\ ~NameTaken(people, LineName(lines[i]))
               /\ \A j \in 1..(i - 1) : LineName(lines[j]) # LineName(lines[i])
               /\ \E j \in (i + 1)..Len(lines) :
                    /\ LineName(lines[j]) = LineName(lines[i])
                    /\ LineRole(lines[j]) # LineRole(lines[i]))
              => \E p \in 1..Len(people') :
                   /\ people'[p].name = LineName(lines[i])
                   /\ people'[p].type = LineRole(lines[i])]_vars

\* C18: the accomodation flag of every person is 'Y' or 'N'.
C18_FlagIsYOrN ==
  \A i \in 1..Len(people) : people[i].accomodation \in {<<"Y">>, <<"N">>}

====
